---- MODULE Spec2Model ----
(***************************************************************************)
(* ConfigFixService (UI/src/app/_services/config-fix.service.ts):          *)
(* generateFixes derives fix suggestions from schema-validation errors,    *)
(* applyFix applies one suggestion to a deep copy of the configuration.    *)
(*                                                                         *)
(* JavaScript values are tagged records:                                   *)
(*   Undef, Null, Bool(b), Num(n), Str(chars),                             *)
(*   Arr(items, named own properties), Obj(properties),                    *)
(* each kind with field names of its own.                                  *)
(* A JavaScript string is a sequence of one-character strings, so that     *)
(* split, the ^\d+$ test, parseInt, substring, String() and Number() are   *)
(* computed rather than assumed.  Property names are such sequences too.   *)
(* Enumerated tags (keyword, expected type, operation) are TLA+ strings;   *)
(* an absent tag is "".                                                    *)
(***************************************************************************)
EXTENDS Integers, Sequences, FiniteSets, TLC

(* ------------------------------ bounds --------------------------------- *)

\* longest error list handed to generateFixes
MaxErrors == 2

\* most path segments in a suggestion handed directly to applyFix
MaxPathLen == 3

(* ---------------------------- JS values -------------------------------- *)

Undef == [t |-> "undefined"]

Null == [t |-> "null"]

Bool(b) == [t |-> "boolean", bool |-> b]

Num(n) == [t |-> "number", num |-> n]

Str(s) == [t |-> "string", chars |-> s]

\* an array: its elements and its non-index own properties
Arr(items, props) == [t |-> "array", items |-> items, own |-> props]

Obj(props) == [t |-> "object", props |-> props]

EmptyProps == [k \in {} |-> Undef]

\* [] and {}
EmptyArr == Arr(<<>>, EmptyProps)

EmptyObj == Obj(EmptyProps)

\* Array.isArray(x)
IsArray(x) == x.t = "array"

\* x && typeof x === 'object'
IsObjectLike(x) == x.t \in {"array", "object"}

(* ------------------------------ strings -------------------------------- *)

Digits == <<"0", "1", "2", "3", "4", "5", "6", "7", "8", "9">>

IsDigit(c) == \E d \in 1..10 : Digits[d] = c

DigitVal(c) == (CHOOSE d \in 1..10 : Digits[d] = c) - 1

\* /^\d+$/.test(s)
IsIndexLiteral(s) == Len(s) > 0 /\ \A i \in 1..Len(s) : IsDigit(s[i])

RECURSIVE ParseDigits(_, _)
ParseDigits(s, acc) ==
    IF s = <<>> THEN acc ELSE ParseDigits(Tail(s), acc * 10 + DigitVal(Head(s)))

\* parseInt(s) for s matching ^\d+$
ParseInt(s) == ParseDigits(s, 0)

RECURSIVE NatDigits(_)
NatDigits(n) ==
    IF n < 10 THEN <<Digits[n + 1]>> ELSE NatDigits(n \div 10) \o <<Digits[(n % 10) + 1]>>

\* String(n) for an integer n
IntToString(n) == IF n < 0 THEN <<"-">> \o NatDigits(-n) ELSE NatDigits(n)

\* s.split('/')
RECURSIVE SplitSlash(_, _, _)
SplitSlash(s, cur, acc) ==
    IF s = <<>> THEN Append(acc, cur)
    ELSE IF Head(s) = "/" THEN SplitSlash(Tail(s), <<>>, Append(acc, cur))
    ELSE SplitSlash(Tail(s), Append(cur, Head(s)), acc)

\* s.split('/').filter((p) => p)
PathParts(s) == SelectSeq(SplitSlash(s, <<>>, <<>>), LAMBDA p : p # <<>>)

UpperCase == <<"T", "R", "U", "E">>

LowerCase == <<"t", "r", "u", "e">>

ToLowerChar(c) ==
    IF \E i \in 1..Len(UpperCase) : UpperCase[i] = c
    THEN LowerCase[CHOOSE i \in 1..Len(UpperCase) : UpperCase[i] = c]
    ELSE c

\* s.toLowerCase()
ToLowerCase(s) == [i \in 1..Len(s) |-> ToLowerChar(s[i])]

(* --------------------------- property access --------------------------- *)

\* s is the canonical decimal form of an array index ("0", "12", not "01")
IsCanonicalIndex(s) == IsIndexLiteral(s) /\ IntToString(ParseInt(s)) = s

\* x[name] for x neither null nor undefined (names such as "length" or
\* inherited ones are outside the alphabet of the model)
GetProp(x, name) ==
    IF x.t = "object" THEN (IF name \in DOMAIN x.props THEN x.props[name] ELSE Undef)
    ELSE IF x.t = "array" THEN
        IF IsCanonicalIndex(name)
        THEN (IF ParseInt(name) < Len(x.items) THEN x.items[ParseInt(name) + 1] ELSE Undef)
        ELSE (IF name \in DOMAIN x.own THEN x.own[name] ELSE Undef)
    ELSE IF x.t = "string" THEN
        IF IsCanonicalIndex(name) /\ ParseInt(name) < Len(x.chars)
        THEN Str(<<x.chars[ParseInt(name) + 1]>>) ELSE Undef
    ELSE Undef

PutKey(f, name, val) == [k \in DOMAIN f \cup {name} |-> IF k = name THEN val ELSE f[k]]

DropKey(f, name) == [k \in DOMAIN f \ {name} |-> f[k]]

\* x[name] = val where x is an object, or an array and name is no index literal
SetProp(x, name, val) ==
    IF x.t = "object" THEN [x EXCEPT !.props = PutKey(@, name, val)]
    ELSE [x EXCEPT !.own = PutKey(@, name, val)]

\* delete x[name] where x is an object, or an array and name is no index literal
DeleteProp(x, name) ==
    IF x.t = "object" THEN [x EXCEPT !.props = DropKey(@, name)]
    ELSE [x EXCEPT !.own = DropKey(@, name)]

(* A reference into a tree is the list of steps from its root: an element  *)
(* index (0-based) or a property name.                                     *)

IdxStep(n) == [idx |-> TRUE, n |-> n, k |-> <<>>]

KeyStep(name) == [idx |-> FALSE, n |-> 0, k |-> name]

Child(x, st) == IF st.idx THEN x.items[st.n + 1] ELSE GetProp(x, st.k)

\* the value a reference denotes
RECURSIVE At(_, _)
At(tree, loc) == IF loc = <<>> THEN tree ELSE At(Child(tree, Head(loc)), Tail(loc))

\* the tree after the object a reference denotes has been changed in place
RECURSIVE Update(_, _, _)
Update(tree, loc, new) ==
    IF loc = <<>> THEN new
    ELSE LET st == Head(loc)
             sub == Update(Child(tree, st), Tail(loc), new)
         IN IF st.idx THEN [tree EXCEPT !.items[st.n + 1] = sub]
            ELSE SetProp(tree, st.k, sub)

(* ----------------------------- conversions ----------------------------- *)

RECURSIVE JoinComma(_)
JoinComma(parts) ==
    IF parts = <<>> THEN <<>>
    ELSE IF Len(parts) = 1 THEN parts[1]
    ELSE parts[1] \o <<",">> \o JoinComma(Tail(parts))

\* String(x)
RECURSIVE StringOf(_)
StringOf(x) ==
    IF x.t = "string" THEN x.chars
    ELSE IF x.t = "number" THEN IntToString(x.num)
    ELSE IF x.t = "boolean" THEN
        (IF x.bool THEN <<"t", "r", "u", "e">> ELSE <<"f", "a", "l", "s", "e">>)
    ELSE IF x.t = "null" THEN <<"n", "u", "l", "l">>
    ELSE IF x.t = "undefined" THEN <<"u", "n", "d", "e", "f", "i", "n", "e", "d">>
    ELSE IF x.t = "array" THEN
        JoinComma([i \in 1..Len(x.items) |->
            IF x.items[i].t \in {"null", "undefined"} THEN <<>> ELSE StringOf(x.items[i])])
    ELSE <<"[", "o", "b", "j", "e", "c", "t", " ", "O", "b", "j", "e", "c", "t", "]">>

NaN == [nan |-> TRUE, n |-> 0]

Finite(n) == [nan |-> FALSE, n |-> n]

\* Number(s) for a string of the model's alphabet (no blanks, fractions,
\* exponents, radix prefixes or "Infinity")
StringToNumber(s) ==
    IF s = <<>> THEN Finite(0)
    ELSE IF IsIndexLiteral(s) THEN Finite(ParseInt(s))
    ELSE IF Head(s) = "-" /\ IsIndexLiteral(Tail(s)) THEN Finite(-ParseInt(Tail(s)))
    ELSE IF Head(s) = "+" /\ IsIndexLiteral(Tail(s)) THEN Finite(ParseInt(Tail(s)))
    ELSE NaN

\* Number(x)
NumberOf(x) ==
    IF x.t = "number" THEN Finite(x.num)
    ELSE IF x.t = "string" THEN StringToNumber(x.chars)
    ELSE IF x.t = "boolean" THEN Finite(IF x.bool THEN 1 ELSE 0)
    ELSE IF x.t = "null" THEN Finite(0)
    ELSE IF x.t = "undefined" THEN NaN
    ELSE IF x.t = "array" THEN StringToNumber(StringOf(x))
    ELSE NaN

\* Boolean(x)
Truthy(x) ==
    IF x.t = "number" THEN x.num # 0
    ELSE IF x.t = "string" THEN x.chars # <<>>
    ELSE IF x.t = "boolean" THEN x.bool
    ELSE x.t \in {"array", "object"}

\* JSON.parse(JSON.stringify(x)) for x other than undefined
RECURSIVE JSONCopy(_)
JSONCopy(x) ==
    IF x.t = "array" THEN
        Arr([i \in 1..Len(x.items) |->
                IF x.items[i] = Undef THEN Null ELSE JSONCopy(x.items[i])], EmptyProps)
    ELSE IF x.t = "object" THEN
        Obj([k \in {n \in DOMAIN x.props : x.props[n] # Undef} |-> JSONCopy(x.props[k])])
    ELSE x

(* --------------------------- Patch Applicator -------------------------- *)

NotFound(tree) == [obj |-> tree, found |-> FALSE, loc |-> <<>>]

\* current[part] = nextPart && /^\d+$/.test(nextPart) ? [] : {}
\* (pathParts is the list getNestedObject was given, i the 1-based position
\* of part in it)
NewContainer(pathParts, i) ==
    IF i + 1 <= Len(pathParts) /\ IsIndexLiteral(pathParts[i + 1])
    THEN EmptyArr ELSE EmptyObj

\* the loop of getNestedObject from position i on, current being the object
\* at loc.  obj is the tree as the walk leaves it (containers created on the
\* way stay in it), found tells a reference from undefined, loc is the
\* reference returned.
RECURSIVE Walk(_, _, _, _, _)
Walk(tree, loc, pathParts, i, createMissing) ==
    IF i > Len(pathParts) THEN [obj |-> tree, found |-> TRUE, loc |-> loc]
    ELSE
    LET current == At(tree, loc)
        part == pathParts[i]
    IN  IF IsArray(current) /\ IsIndexLiteral(part) THEN
            LET index == ParseInt(part)
            IN  IF index >= 0 /\ index < Len(current.items)
                THEN Walk(tree, Append(loc, IdxStep(index)), pathParts, i + 1, createMissing)
                ELSE NotFound(tree)
        ELSE IF IsObjectLike(current) THEN
            IF GetProp(current, part) = Undef THEN
                IF createMissing
                THEN Walk(Update(tree, loc, SetProp(current, part, NewContainer(pathParts, i))),
                          Append(loc, KeyStep(part)), pathParts, i + 1, createMissing)
                ELSE NotFound(tree)
            ELSE Walk(tree, Append(loc, KeyStep(part)), pathParts, i + 1, createMissing)
        ELSE NotFound(tree)

GetNestedObject(obj, pathParts, createMissing) == Walk(obj, <<>>, pathParts, 1, createMissing)

\* pathParts.slice(0, -1)
ParentPath(pathParts) == SubSeq(pathParts, 1, Len(pathParts) - 1)

\* any index at or beyond the end appends
SetIndexNoGapCheck(parent, index, value) ==
    IF index >= 0 /\ index < Len(parent.items) THEN [parent EXCEPT !.items[index + 1] = value]
    ELSE [parent EXCEPT !.items = Append(@, value)]

\* the array branch of setProperty: overwrite in range, push at the end
SetIndex(parent, index, value) ==
    IF index >= 0 /\ index < Len(parent.items) THEN [parent EXCEPT !.items[index + 1] = value]
    ELSE IF index = Len(parent.items) THEN [parent EXCEPT !.items = Append(@, value)]
    ELSE parent

\* setProperty(obj, pathParts, value): the tree obj is afterwards
SetProperty(obj, pathParts, value) ==
    IF Len(pathParts) = 0 THEN obj
    ELSE
    LET lastPart == pathParts[Len(pathParts)]
        r == GetNestedObject(obj, ParentPath(pathParts), TRUE)
        parent == At(r.obj, r.loc)
    IN  IF r.found /\ IsObjectLike(parent) THEN
            IF IsArray(parent) /\ IsIndexLiteral(lastPart)
            THEN Update(r.obj, r.loc, SetIndex(parent, ParseInt(lastPart), value))
            ELSE Update(r.obj, r.loc, SetProp(parent, lastPart, value))
        ELSE r.obj

\* parent.splice(index, 1)
Splice1(parent, index) ==
    IF index < Len(parent.items)
    THEN [parent EXCEPT !.items = SubSeq(@, 1, index) \o SubSeq(@, index + 2, Len(@))]
    ELSE parent

\* removeProperty(obj, pathParts): the tree obj is afterwards
RemoveProperty(obj, pathParts) ==
    IF Len(pathParts) = 0 THEN obj
    ELSE
    LET lastPart == pathParts[Len(pathParts)]
        r == GetNestedObject(obj, ParentPath(pathParts), FALSE)
        parent == At(r.obj, r.loc)
    IN  IF r.found /\ IsObjectLike(parent) THEN
            IF IsArray(parent) /\ IsIndexLiteral(lastPart)
            THEN Update(r.obj, r.loc, Splice1(parent, ParseInt(lastPart)))
            ELSE Update(r.obj, r.loc, DeleteProp(parent, lastPart))
        ELSE r.obj

\* const configCopy = config: the edit is made on the caller's object
AliasConfigRef(heap, config) == config

\* The heap: heap[r] is the tree of the object with reference r.  JSON.parse
\* returns a newly allocated tree that shares nothing with its argument.
ConfigCopyRef(heap, config) == Len(heap) + 1

\* applyFix(config, fix) on the heap: the heap afterwards and the reference
\* returned
ApplyFixOn(heap, config, fix) ==
    LET ref == ConfigCopyRef(heap, config)
        configCopy == JSONCopy(heap[config])
        pathParts == PathParts(fix.suggestion.path)
        op == fix.suggestion.operation
        edited == IF op = "remove" THEN RemoveProperty(configCopy, pathParts)
                  ELSE IF op \in {"add", "replace", "set"}
                       THEN SetProperty(configCopy, pathParts, fix.suggestion.value)
                       ELSE configCopy
    IN  [heap |-> [r \in DOMAIN heap \cup {ref} |-> IF r = ref THEN edited ELSE heap[r]],
         ret |-> ref]

(* ------------------------------ errors --------------------------------- *)
(* A validation error is a record: keyword (tag), instancePath and         *)
(* dataPath (Str or Undef), params (Undef or Params), schema (Undef or a   *)
(* Schema), parentSchema (Undef or a ParentSchema).                        *)

\* error.params: fields that are absent are Undef (type: "")
Params(missingProperty, type, additionalProperty, limit, allowedValues) ==
    [t |-> "object", missingProperty |-> missingProperty, type |-> type,
     additionalProperty |-> additionalProperty, limit |-> limit,
     allowedValues |-> allowedValues]

\* error.schema: its default (Undef when it has none) and its type tag
Schema(default, type) == [t |-> "object", default |-> default, type |-> type]

\* error.parentSchema: properties maps a property name to that property's
\* default (no properties: the empty function)
ParentSchema(properties) == [t |-> "object", properties |-> properties]

\* getErrorPath(error)
GetErrorPath(error) ==
    IF Truthy(error.instancePath) THEN error.instancePath.chars
    ELSE IF Truthy(error.dataPath) THEN error.dataPath.chars
    ELSE <<>>

\* lines 69-82 of generateFixForError: the value at the error's path
RECURSIVE Navigate(_, _)
Navigate(currentValue, pathParts) ==
    IF pathParts = <<>> THEN currentValue
    ELSE IF IsObjectLike(currentValue) THEN
        LET part == Head(pathParts)
        IN  IF IsArray(currentValue) /\ IsIndexLiteral(part)
            THEN Navigate(IF ParseInt(part) < Len(currentValue.items)
                          THEN currentValue.items[ParseInt(part) + 1] ELSE Undef,
                          Tail(pathParts))
            ELSE Navigate(GetProp(currentValue, part), Tail(pathParts))
    ELSE Undef

\* convertType(value, expectedType); Undef is JavaScript's undefined
ConvertType(value, expectedType) ==
    IF expectedType = "string" THEN Str(StringOf(value))
    ELSE IF expectedType = "number" THEN
        (IF NumberOf(value).nan THEN Undef ELSE Num(NumberOf(value).n))
    ELSE IF expectedType = "boolean" THEN
        (IF value.t = "string" THEN Bool(ToLowerCase(value.chars) = <<"t", "r", "u", "e">>)
         ELSE Bool(Truthy(value)))
    ELSE IF expectedType = "array" THEN
        (IF IsArray(value) THEN value ELSE Arr(<<value>>, EmptyProps))
    ELSE IF expectedType = "object" THEN
        (IF IsObjectLike(value) THEN value ELSE EmptyObj)
    ELSE Undef

\* error.schema?.default
SchemaDefault(error) == IF error.schema = Undef THEN Undef ELSE error.schema.default

\* error.parentSchema?.properties?.[propertyName]?.default
ParentDefault(error, propertyName) ==
    IF error.parentSchema = Undef THEN Undef
    ELSE IF propertyName \in DOMAIN error.parentSchema.properties
         THEN error.parentSchema.properties[propertyName]
         ELSE Undef

\* error.params?.type || error.schema?.type
DefaultType(error) ==
    IF error.params # Undef /\ error.params.type # "" THEN error.params.type
    ELSE IF error.schema # Undef THEN error.schema.type
    ELSE ""

\* the switch of getDefaultValue
TypeDefault(type) ==
    IF type = "string" THEN Str(<<>>)
    ELSE IF type = "number" THEN Num(0)
    ELSE IF type = "boolean" THEN Bool(FALSE)
    ELSE IF type = "array" THEN EmptyArr
    ELSE IF type = "object" THEN EmptyObj
    ELSE Null

\* the default of the parent schema is tried before the schema's own
ParentFirstDefault(error, propertyName) ==
    IF ParentDefault(error, propertyName) # Undef THEN ParentDefault(error, propertyName)
    ELSE IF SchemaDefault(error) # Undef THEN SchemaDefault(error)
    ELSE TypeDefault(DefaultType(error))

\* getDefaultValue(error, propertyName)
GetDefaultValue(error, propertyName) ==
    IF SchemaDefault(error) # Undef THEN SchemaDefault(error)
    ELSE IF ParentDefault(error, propertyName) # Undef THEN ParentDefault(error, propertyName)
    ELSE TypeDefault(DefaultType(error))

(* --------------------------- Fix Synthesizer --------------------------- *)

Suggestion(operation, path, value, oldValue) ==
    [operation |-> operation, path |-> path, value |-> value, oldValue |-> oldValue]

\* suggestion = null
NoSuggestion == [operation |-> ""]

\* case 'minItems' without its return falls through to case 'maxItems'
FallThroughCase(error) == IF error.keyword = "minItems" THEN "maxItems" ELSE error.keyword

\* switch (error.keyword): the case label taken
KeywordCase(error) == error.keyword

\* path ? `${path}/${name}` : `/${name}`
ChildPath(path, name) ==
    IF path # <<>> THEN path \o <<"/">> \o StringOf(name) ELSE <<"/">> \o StringOf(name)

\* n > error.params.limit (false when limit is undefined)
Exceeds(n, limit) == limit.t = "number" /\ n > limit.num

\* n < error.params.limit
Below(n, limit) == limit.t = "number" /\ n < limit.num

Min(a, b) == IF a < b THEN a ELSE b

Max(a, b) == IF a > b THEN a ELSE b

\* xs.slice(0, limit) and s.substring(0, limit) on the element sequence
SliceTo(xs, limit) ==
    IF limit >= 0 THEN SubSeq(xs, 1, Min(limit, Len(xs)))
    ELSE SubSeq(xs, 1, Max(Len(xs) + limit, 0))

SubstringTo(s, limit) == SubSeq(s, 1, Min(Max(limit, 0), Len(s)))

\* reading a field of error.params raises a TypeError when params is
\* undefined; so does allowedValues.join when allowedValues is
HitsTypeError(error, currentValue) ==
    LET k == KeywordCase(error)
    IN  \/ /\ error.params = Undef
           /\ \/ k \in {"required", "type", "additionalProperties",
                        "minItems", "minLength", "enum"}
              \/ k = "maxItems" /\ IsArray(currentValue)
              \/ k = "maxLength" /\ currentValue.t = "string"
              \/ k \in {"minimum", "maximum"} /\ currentValue.t = "number"
        \/ /\ k = "enum"
           /\ error.params # Undef
           /\ error.params.allowedValues = Undef

\* the switch of generateFixForError when it raises nothing: the suggestion,
\* NoSuggestion where the case leaves it null or returns null
SuggestionFor(error, path, pathParts, currentValue) ==
    LET k == KeywordCase(error)
        params == error.params
    IN  IF k = "required" THEN
            Suggestion("add", ChildPath(path, params.missingProperty),
                       GetDefaultValue(error, StringOf(params.missingProperty)), Undef)
        ELSE IF k = "type" THEN
            LET convertedValue == ConvertType(currentValue, params.type)
            IN  IF convertedValue # Undef
                THEN Suggestion("replace", path, convertedValue, currentValue)
                ELSE Suggestion("replace", path,
                        GetDefaultValue(error,
                            IF pathParts = <<>> THEN <<>> ELSE pathParts[Len(pathParts)]),
                        currentValue)
        ELSE IF k = "additionalProperties" THEN
            Suggestion("remove", ChildPath(path, params.additionalProperty), Undef,
                       IF currentValue.t \in {"undefined", "null"} THEN Undef
                       ELSE GetProp(currentValue, StringOf(params.additionalProperty)))
        ELSE IF k = "maxItems" THEN
            IF IsArray(currentValue) /\ Exceeds(Len(currentValue.items), params.limit)
            THEN Suggestion("replace", path,
                            Arr(SliceTo(currentValue.items, params.limit.num), EmptyProps),
                            currentValue)
            ELSE NoSuggestion
        ELSE IF k = "maxLength" THEN
            IF currentValue.t = "string" /\ Exceeds(Len(currentValue.chars), params.limit)
            THEN Suggestion("replace", path,
                            Str(SubstringTo(currentValue.chars, params.limit.num)), currentValue)
            ELSE NoSuggestion
        ELSE IF k = "minimum" THEN
            IF currentValue.t = "number" /\ Below(currentValue.num, params.limit)
            THEN Suggestion("replace", path, params.limit, currentValue)
            ELSE NoSuggestion
        ELSE IF k = "maximum" THEN
            IF currentValue.t = "number" /\ Exceeds(currentValue.num, params.limit)
            THEN Suggestion("replace", path, params.limit, currentValue)
            ELSE NoSuggestion
        ELSE NoSuggestion

\* the description of a fix, without the interpolated values
DescriptionFor(error) ==
    LET k == KeywordCase(error)
    IN  IF k = "required" THEN "Missing required property. Add with default value."
        ELSE IF k = "type" THEN "Property has wrong type."
        ELSE IF k = "additionalProperties" THEN "Invalid property is not allowed. Remove it."
        ELSE IF k = "maxItems" THEN "Array has too many items. Remove excess items."
        ELSE IF k = "maxLength" THEN "String is too long. Truncate."
        ELSE IF k = "minimum" THEN "Value is too small. Set to minimum."
        ELSE IF k = "maximum" THEN "Value is too large. Set to maximum."
        ELSE ""

\* generateFixForError(error, config, path): kind "fix" with the ConfigFix,
\* "null", or "throw" for a TypeError.  source is the position of error in
\* the list: it stands for the identity of the object fix.error refers to.
\* The id (a timestamp and a random number) is left out.
GenerateFixForError(error, config, path, source) ==
    LET pathParts == PathParts(path)
        currentValue == Navigate(config, pathParts)
    IN  IF HitsTypeError(error, currentValue) THEN [kind |-> "throw"]
        ELSE
        LET suggestion == SuggestionFor(error, path, pathParts, currentValue)
        IN  IF suggestion = NoSuggestion THEN [kind |-> "null"]
            ELSE [kind |-> "fix",
                  fix |-> [error |-> error, source |-> source, path |-> path,
                           description |-> DescriptionFor(error),
                           suggestion |-> suggestion]]

\* `${error.keyword}:${path}`: such a key is only ever stored for one of the
\* seven fixable keywords, none of which holds a colon, so it equals the
\* key of another fixable error exactly when keyword and path are equal
PathKey(error, path) == <<error.keyword, path>>

\* the key is never recorded
NeverMarkProcessed(processedPaths, pathKey) == processedPaths

\* processedPaths.add(pathKey)
MarkProcessed(processedPaths, pathKey) == processedPaths \cup {pathKey}

\* fixes.unshift(fix)
UnshiftFix(fixes, fix) == <<fix>> \o fixes

\* fixes.push(fix)
PushFix(fixes, fix) == Append(fixes, fix)

\* the loop of generateFixes from the i-th error on
RECURSIVE GenerateLoop(_, _, _, _, _)
GenerateLoop(errors, config, i, fixes, processedPaths) ==
    IF i > Len(errors) THEN [thrown |-> FALSE, fixes |-> fixes]
    ELSE
    LET error == errors[i]
        path == GetErrorPath(error)
        pathKey == PathKey(error, path)
    IN  IF pathKey \in processedPaths
        THEN GenerateLoop(errors, config, i + 1, fixes, processedPaths)
        ELSE
        LET r == GenerateFixForError(error, config, path, i)
        IN  IF r.kind = "throw" THEN [thrown |-> TRUE, fixes |-> <<>>]
            ELSE IF r.kind = "fix"
            THEN GenerateLoop(errors, config, i + 1, PushFix(fixes, r.fix),
                              MarkProcessed(processedPaths, pathKey))
            ELSE GenerateLoop(errors, config, i + 1, fixes, processedPaths)

\* generateFixes(errors, config)
GenerateFixesOf(errors, config) == GenerateLoop(errors, config, 1, <<>>, {})

(* ------------------------------- inputs -------------------------------- *)

\* property names and path segments
KeyA == <<"a">>

KeyB == <<"b">>

KeyXs == <<"x", "s">>

\* configuration documents (JSON values)
Docs ==
    { EmptyObj,
      Obj(KeyA :> EmptyObj),
      Obj(KeyXs :> Arr(<<Num(1), Num(2)>>, EmptyProps)),
      Obj(KeyA :> Str(<<"a", "b", "c", "d">>)),
      Obj(KeyA :> Num(7)),
      Arr(<<Num(1), Num(2), Num(3)>>, EmptyProps),
      Obj(KeyA :> Arr(<<EmptyObj, Str(<<"1", "2">>)>>, EmptyProps)),
      Obj((KeyA :> Obj(KeyB :> Null)) @@ (KeyXs :> EmptyArr)),
      Obj(KeyA :> Str(<<"T", "R", "U", "e">>)),
      Obj((KeyA :> Bool(FALSE)) @@ (KeyB :> Num(0))),
      Obj(KeyXs :> Arr(<<Arr(<<Null>>, EmptyProps), Num(-3)>>, EmptyProps)),
      Str(<<"a", "b", "c">>),
      Num(7),
      Null }

\* "/" + segment, for each segment
RECURSIVE PathString(_)
PathString(segs) ==
    IF segs = <<>> THEN <<>> ELSE <<"/">> \o Head(segs) \o PathString(Tail(segs))

\* the paths errors point at
ErrorPaths ==
    { PathString(<<>>), PathString(<<KeyA>>), PathString(<<KeyXs>>),
      PathString(<<KeyA, <<"0">>>>), PathString(<<KeyA, KeyB>>),
      PathString(<<KeyXs, <<"0">>>>), PathString(<<KeyXs, <<"5">>>>),
      KeyA \o <<"/">> }

Error(keyword, instancePath, dataPath, params, schema, parentSchema) ==
    [keyword |-> keyword, instancePath |-> instancePath, dataPath |-> dataPath,
     params |-> params, schema |-> schema, parentSchema |-> parentSchema]

\* an error as a validator reports it: instancePath and params only
Plain(keyword, path, params) == Error(keyword, Str(path), Undef, params, Undef, Undef)

OfMissing(name) == Params(Str(name), "", Undef, Undef, Undef)

OfType(type) == Params(Undef, type, Undef, Undef, Undef)

OfAdditional(name) == Params(Undef, "", Str(name), Undef, Undef)

OfLimit(n) == Params(Undef, "", Undef, Num(n), Undef)

OfAllowed(values) == Params(Undef, "", Undef, Undef, values)

\* the schema hints a required error may carry: (schema, parentSchema)
Hints ==
    { <<Undef, Undef>>,
      <<Schema(Num(5), ""), Undef>>,
      <<Undef, ParentSchema(KeyB :> Str(<<"x">>))>>,
      <<Schema(Null, "number"), ParentSchema(KeyB :> Num(3))>>,
      <<Schema(Undef, "array"), ParentSchema(KeyA :> Num(3))>>,
      <<Schema(Undef, "boolean"), ParentSchema(EmptyProps)>> }

Limits == {0, 1, 2, 9}

ExpectedTypes == {"string", "number", "boolean", "array", "object", "integer"}

LimitKeywords == {"minItems", "maxItems", "minLength", "maxLength", "minimum", "maximum"}

\* every keyword of the switch, one it does not know, and for each the
\* record with params missing
AllErrors ==
    UNION { { Error("required", Str(p), Undef, OfMissing(m), h[1], h[2]) :
                m \in {KeyA, KeyB, <<"0">>}, h \in Hints }
            \cup { Plain("type", p, OfType(ty)) : ty \in ExpectedTypes }
            \cup { Error("type", Str(p), Undef, OfType("integer"), Schema(Num(4), ""), Undef) }
            \cup { Plain("additionalProperties", p, OfAdditional(m)) : m \in {KeyA, KeyB, <<"0">>} }
            \cup { Plain(k, p, OfLimit(n)) : k \in LimitKeywords, n \in Limits }
            \cup { Plain("enum", p, OfAllowed(Arr(<<Num(1)>>, EmptyProps))),
                   Plain("enum", p, OfAllowed(Undef)),
                   Plain("pattern", p, OfLimit(1)),
                   Error("maxItems", Undef, Str(p), OfLimit(1), Undef, Undef),
                   Error("maxItems", Str(<<>>), Str(p), OfLimit(1), Undef, Undef) }
            \cup { Plain(k, p, Undef) :
                     k \in LimitKeywords \cup {"required", "type", "additionalProperties",
                                               "enum", "pattern"} }
          : p \in ErrorPaths }

\* the errors lists of two and more are made of
CoreErrors ==
    { Plain("required", <<>>, OfMissing(KeyB)),
      Plain("required", <<>>, Undef),
      Plain("maxItems", PathString(<<KeyXs>>), OfLimit(1)),
      Plain("maxItems", PathString(<<KeyXs>>), OfLimit(9)),
      Plain("maxItems", PathString(<<KeyXs>>), OfLimit(0)),
      Error("maxItems", Undef, Str(PathString(<<KeyXs>>)), OfLimit(1), Undef, Undef),
      Plain("minItems", PathString(<<KeyXs>>), OfLimit(9)),
      Plain("minLength", PathString(<<KeyA>>), Undef),
      Plain("enum", PathString(<<KeyA>>), Undef),
      Plain("enum", PathString(<<KeyA>>), OfAllowed(Arr(<<Num(1)>>, EmptyProps))),
      Plain("type", PathString(<<KeyA>>), OfType("string")),
      Plain("maximum", PathString(<<KeyA>>), OfLimit(1)),
      Plain("additionalProperties", <<>>, OfAdditional(KeyA)),
      Plain("pattern", PathString(<<KeyA>>), OfLimit(1)) }

ErrorLists ==
    {<<>>} \cup { <<e>> : e \in AllErrors }
           \cup UNION { [1..n -> CoreErrors] : n \in 2..MaxErrors }

\* the segments of the paths handed to applyFix directly
Segments == {KeyA, KeyB, KeyXs, <<"0">>, <<"2">>, <<"5">>}

SuggestionPaths ==
    { PathString(segs) : segs \in UNION { [1..n -> Segments] : n \in 0..MaxPathLen } }
    \cup { KeyXs \o <<"/", "2">>,
           <<"/">> \o KeyXs \o <<"/", "/", "2", "/">>,
           <<"/">>,
           <<"/">> \o KeyXs \o <<"/", "0", "2">> }

\* a fix the caller makes up: only its suggestion matters to applyFix
CallerFix(operation, path, value) ==
    [error |-> Undef, source |-> 0, path |-> path, description |-> "",
     suggestion |-> Suggestion(operation, path, value, Undef)]

CallerFixes ==
    { CallerFix(op, p, Num(9)) : op \in {"add", "remove", "replace", "set"},
                                  p \in SuggestionPaths }
    \cup { CallerFix("set", p, EmptyObj) : p \in SuggestionPaths }

\* fix before the caller has one
NoFix == [suggestion |-> NoSuggestion]

(* ---------------------------- state machine ---------------------------- *)

VARIABLES
    heap,    \* heap[r]: the tree of the object with reference r
    config,  \* the reference the caller holds to its document
    errors,  \* the error list handed to generateFixes
    fixes,   \* the list generateFixes returned
    fix,     \* the fix handed to applyFix
    before,  \* the caller's document as it was when applyFix was called
    result,  \* the reference applyFix returned (0: none yet)
    pc       \* "ready", "generated", "threw", "selected", "applied"

vars == <<heap, config, errors, fixes, fix, before, result, pc>>

\* the caller holds a document and a list of validation errors
Init ==
    /\ \E d \in Docs : heap = <<d>> /\ before = d
    /\ config = 1
    /\ errors \in ErrorLists
    /\ fixes = <<>>
    /\ fix = NoFix
    /\ result = 0
    /\ pc = "ready"

\* the caller holds a document and a fix of its own making
InitApply ==
    /\ \E d \in Docs : heap = <<d>> /\ before = d
    /\ config = 1
    /\ errors = <<>>
    /\ fixes = <<>>
    /\ fix \in CallerFixes
    /\ result = 0
    /\ pc = "selected"

\* generateFixes(errors, config) returns or raises
GenerateFixes ==
    /\ pc = "ready"
    /\ LET r == GenerateFixesOf(errors, heap[config])
       IN  /\ fixes' = r.fixes
           /\ pc' = IF r.thrown THEN "threw" ELSE "generated"
    /\ UNCHANGED <<heap, config, errors, fix, before, result>>

\* the caller picks one of the fixes returned
SelectFix ==
    /\ pc = "generated"
    /\ \E i \in 1..Len(fixes) : fix' = fixes[i]
    /\ pc' = "selected"
    /\ UNCHANGED <<heap, config, errors, fixes, before, result>>

\* applyFix(config, fix) returns
ApplyFix ==
    /\ pc = "selected"
    /\ LET r == ApplyFixOn(heap, config, fix)
       IN  /\ heap' = r.heap
           /\ result' = r.ret
    /\ before' = heap[config]
    /\ pc' = "applied"
    /\ UNCHANGED <<config, errors, fixes, fix>>

Next == GenerateFixes \/ SelectFix \/ ApplyFix

Spec == Init /\ [][Next]_vars

NextApply == ApplyFix

SpecApply == InitApply /\ [][NextApply]_vars

\* the document applyFix was given and the one it returned
D == before

Result == heap[result]

(* ------------------------- notions of the claims ----------------------- *)

Returned == pc \in {"generated", "selected", "applied"}

SetLike == {"add", "replace", "set"}

\* the segments of the path of the fix applied
Parts == PathParts(fix.suggestion.path)

\* where the segments lead in a document, without creating anything
Resolve(doc, segs) == GetNestedObject(doc, segs, FALSE)

\* the value the segments lead to, Undef if they lead nowhere
ReadAt(doc, segs) ==
    IF Resolve(doc, segs).found THEN At(doc, Resolve(doc, segs).loc) ELSE Undef

\* the error path of the claims: instancePath, else dataPath, else ""
ErrorPathOf(e) ==
    IF e.instancePath.t = "string" /\ e.instancePath.chars # <<>> THEN e.instancePath.chars
    ELSE IF e.dataPath.t = "string" /\ e.dataPath.chars # <<>> THEN e.dataPath.chars
    ELSE <<>>

SameKey(e1, e2) == e1.keyword = e2.keyword /\ ErrorPathOf(e1) = ErrorPathOf(e2)

\* what generateFixForError makes of the i-th error on its own
Alone(i) == GenerateFixForError(errors[i], D, GetErrorPath(errors[i]), i)

(* ------------------------------- claims -------------------------------- *)

\* C1: applyFix leaves the document it is given deep-equal to what it was
\* before the call, for every operation and path, paths that make it
\* create intermediate containers included.
C1_NonMutation == pc = "applied" => heap[config] = before

\* C1 witness: an add through two missing intermediates changed the copy
\* returned and not the document.
C1_Witness ==
    /\ pc = "applied"
    /\ fix.suggestion.operation = "add"
    /\ Len(Parts) = 3
    /\ ~Resolve(D, SubSeq(Parts, 1, 1)).found
    /\ Resolve(Result, Parts).found
    /\ Result # D
    /\ heap[config] = before

\* C3: the list one generateFixes call returns never holds two fixes whose
\* errors agree in keyword and in error path (instancePath, else dataPath,
\* else the empty string).
C3_Dedup ==
    Returned =>
        \A i, j \in 1..Len(fixes) :
            i < j => ~SameKey(fixes[i].error, fixes[j].error)

\* C3 witness: two errors with one key, each fixable on its own, gave one
\* fix.
C3_Witness ==
    /\ pc = "generated"
    /\ Len(errors) = 2
    /\ SameKey(errors[1], errors[2])
    /\ Alone(1).kind = "fix"
    /\ Alone(2).kind = "fix"
    /\ Len(fixes) = 1

\* C9: no fix returned by generateFixes has a source error whose keyword is
\* minItems, minLength or enum, or any keyword other than required, type,
\* additionalProperties, maxItems, maxLength, minimum and maximum.
C9_UnfixableNeverEmit ==
    Returned =>
        \A i \in 1..Len(fixes) :
            fixes[i].error.keyword \in
                {"required", "type", "additionalProperties", "maxItems",
                 "maxLength", "minimum", "maximum"}

\* C9 witness: a list with a minItems error on an array and a fixable error
\* returned the fix of the fixable error alone.
C9_Witness ==
    /\ pc = "generated"
    /\ Len(errors) = 2
    /\ errors[1].keyword = "minItems"
    /\ IsArray(Navigate(D, PathParts(ErrorPathOf(errors[1]))))
    /\ Len(fixes) = 1
    /\ fixes[1].source = 2

\* the parent of the final segment in the document applyFix was given
ParentInD == Resolve(D, ParentPath(Parts))

\* the document with the array the parent path leads to given other elements
WithParentItems(items) ==
    Update(D, ParentInD.loc, [At(D, ParentInD.loc) EXCEPT !.items = items])

\* C6: when the parent of the path is an existing array of length n and
\* the final segment is the numeric index i, add/replace/set gives the
\* document with element i replaced by the value if i < n, with the value
\* appended if i = n, and the document unchanged if i > n.
C6_ArrayAppend ==
    ( /\ pc = "applied"
      /\ fix.suggestion.operation \in SetLike
      /\ Parts # <<>>
      /\ IsIndexLiteral(Parts[Len(Parts)])
      /\ ParentInD.found
      /\ IsArray(At(D, ParentInD.loc)) )
    =>
    LET old == At(D, ParentInD.loc).items
        n == Len(old)
        i == ParseInt(Parts[Len(Parts)])
        value == fix.suggestion.value
    IN  /\ i < n => Result = WithParentItems(
                        [j \in 1..n |-> IF j = i + 1 THEN value ELSE old[j]])
        /\ i = n => Result = WithParentItems(old \o <<value>>)
        /\ i > n => Result = D

\* C6 witness: a set at index n of a nested array of length n > 0 appended
\* the value.
C6_Witness ==
    /\ pc = "applied"
    /\ fix.suggestion.operation = "set"
    /\ Len(Parts) = 2
    /\ IsIndexLiteral(Parts[2])
    /\ ParentInD.found
    /\ IsArray(At(D, ParentInD.loc))
    /\ Len(At(D, ParentInD.loc).items) = 2
    /\ ParseInt(Parts[2]) = 2
    /\ Len(ReadAt(Result, ParentPath(Parts)).items) = 3

\* C6 second witness: an index beyond the end left the document as it was.
C6_WitnessBeyond ==
    /\ pc = "applied"
    /\ fix.suggestion.operation = "set"
    /\ Len(Parts) = 2
    /\ IsIndexLiteral(Parts[2])
    /\ ParentInD.found
    /\ IsArray(At(D, ParentInD.loc))
    /\ ParseInt(Parts[2]) > Len(At(D, ParentInD.loc).items)
    /\ Result = D

\* the error of a list of one
E1 == errors[1]

\* the default the claim names for property m of error e: schema.default
\* if defined, else parentSchema.properties[m].default if defined, else the
\* built-in default of the type, else null
ResolvedDefault(e, m) ==
    LET type == IF e.params.type # "" THEN e.params.type
                ELSE IF e.schema # Undef THEN e.schema.type ELSE ""
    IN  IF e.schema # Undef /\ e.schema.default # Undef THEN e.schema.default
        ELSE IF /\ e.parentSchema # Undef
                /\ m \in DOMAIN e.parentSchema.properties
                /\ e.parentSchema.properties[m] # Undef
             THEN e.parentSchema.properties[m]
        ELSE IF type = "string" THEN Str(<<>>)
        ELSE IF type = "number" THEN Num(0)
        ELSE IF type = "boolean" THEN Bool(FALSE)
        ELSE IF type = "array" THEN Arr(<<>>, EmptyProps)
        ELSE IF type = "object" THEN Obj(EmptyProps)
        ELSE Null

\* one required error whose instancePath leads to a map of the document
\* that lacks the missing property
RequiredCase ==
    /\ Len(errors) = 1
    /\ E1.keyword = "required"
    /\ E1.instancePath.t = "string"
    /\ E1.dataPath = Undef
    /\ E1.params # Undef
    /\ E1.params.missingProperty.t = "string"
    /\ LET at == Resolve(D, PathParts(E1.instancePath.chars))
       IN  /\ at.found
           /\ At(D, at.loc).t = "object"
           /\ E1.params.missingProperty.chars \notin DOMAIN At(D, at.loc).props

InInputOrder ==
    \A i, j \in 1..Len(fixes) : i < j => fixes[i].source < fixes[j].source

\* C4 as amended: the fixes returned are in the order of their source
\* errors, no two of them share a dedup key, and the source of a fix is the
\* first error with its key for which a fix is produced: every earlier
\* error with the same key yields no fix on its own.
C4_FirstFixWins ==
    Returned =>
        /\ InInputOrder
        /\ \A i \in 1..Len(fixes) :
              /\ fixes[i].error = errors[fixes[i].source]
              /\ \A j \in 1..Len(fixes) :
                    i # j => ~SameKey(fixes[i].error, fixes[j].error)
              /\ \A k \in 1..(fixes[i].source - 1) :
                    SameKey(errors[k], fixes[i].error) => Alone(k).kind # "fix"

\* C4 witness: the first error of a key gave no fix and the second error of
\* the same key is the source of the fix returned.
C4_Witness ==
    /\ pc = "generated"
    /\ Len(errors) = 2
    /\ SameKey(errors[1], errors[2])
    /\ Alone(1).kind = "null"
    /\ Len(fixes) = 1
    /\ fixes[1].source = 2

\* C4 as claimed: the fixes are in input order and the source of every fix
\* is the first error in the input that carries its dedup key.
C4_FirstOccurrenceWins ==
    Returned =>
        /\ InInputOrder
        /\ \A i \in 1..Len(fixes) :
              \A k \in 1..(fixes[i].source - 1) : ~SameKey(errors[k], fixes[i].error)

\* a record whose keyword reads a field of params while params is missing
Malformed(e) ==
    /\ e.params = Undef
    /\ e.keyword \in {"required", "type", "additionalProperties", "minItems",
                      "maxItems", "enum"}

\* a fix without the position of its source
Unsourced(f) == [f EXCEPT !.source = 0]

\* C2: a list that holds a malformed error record does not make
\* generateFixes abort; the malformed record contributes no fix and the
\* other records yield the fixes they yield without it.
C2_BatchRobustness ==
    (pc # "ready" /\ \E i \in 1..Len(errors) : Malformed(errors[i])) =>
        /\ pc # "threw"
        /\ \A i \in 1..Len(fixes) : ~Malformed(fixes[i].error)
        /\ LET rest == GenerateFixesOf(SelectSeq(errors, LAMBDA e : ~Malformed(e)), D).fixes
           IN  [i \in 1..Len(fixes) |-> Unsourced(fixes[i])]
                 = [i \in 1..Len(rest) |-> Unsourced(rest[i])]

\* the value of an add/replace/set is not at its path in the result
WriteFailed ==
    /\ fix.suggestion.operation \in SetLike
    /\ ReadAt(Result, Parts) # fix.suggestion.value

\* the target of the fix cannot be resolved in the document: the parent
\* path meets a non-container or an index out of range, or the final
\* numeric segment lies beyond the end of an array parent
RECURSIVE MeetsDeadEnd(_, _)
MeetsDeadEnd(doc, segs) ==
    IF segs = <<>> THEN FALSE
    ELSE IF IsArray(doc) /\ IsIndexLiteral(Head(segs)) THEN
        IF ParseInt(Head(segs)) < Len(doc.items)
        THEN MeetsDeadEnd(doc.items[ParseInt(Head(segs)) + 1], Tail(segs))
        ELSE TRUE
    ELSE IF IsObjectLike(doc) THEN
        IF GetProp(doc, Head(segs)) = Undef THEN FALSE
        ELSE MeetsDeadEnd(GetProp(doc, Head(segs)), Tail(segs))
    ELSE TRUE

Unresolvable ==
    /\ Parts # <<>>
    /\ \/ MeetsDeadEnd(D, ParentPath(Parts))
       \/ /\ ParentInD.found
          /\ ~IsObjectLike(At(D, ParentInD.loc))
       \/ /\ ParentInD.found
          /\ IsArray(At(D, ParentInD.loc))
          /\ IsIndexLiteral(Parts[Len(Parts)])
          /\ ParseInt(Parts[Len(Parts)]) > Len(At(D, ParentInD.loc).items)

\* C5: a fix whose target cannot be resolved in the document makes
\* applyFix return a document deep-equal to the one it was given, and an
\* add/replace/set that does not write its value leaves no container it
\* created in the result.
C5_UnresolvableIsNoOp ==
    (pc = "applied" /\ (Unresolvable \/ WriteFailed)) => Result = D

\* the first k segments lead nowhere in the document and to a container in
\* the result
Vivified(k) ==
    /\ ~Resolve(D, SubSeq(Parts, 1, k)).found
    /\ IsObjectLike(ReadAt(Result, SubSeq(Parts, 1, k)))

\* C7: every container an add/replace/set creates for a missing key at
\* segment k is an array if segment k+1 of the path is a numeric literal
\* and a map otherwise, the parent of the final segment included, and the
\* value is written at the end of the branch created.
C7_LookaheadVivification ==
    (pc = "applied" /\ fix.suggestion.operation \in SetLike) =>
        \A k \in 1..(Len(Parts) - 1) :
            Vivified(k) =>
                /\ IsArray(ReadAt(Result, SubSeq(Parts, 1, k)))
                     <=> IsIndexLiteral(Parts[k + 1])
                /\ ReadAt(Result, Parts) = fix.suggestion.value

\* C10: a replace fix generateFixes returned for an error whose path leads
\* to a value of the document, the root included, takes effect: the result
\* holds the suggested value at the path and equals the document elsewhere.
C10_ReplaceTakesEffect ==
    ( /\ pc = "applied"
      /\ fix.source >= 1
      /\ fix.suggestion.operation = "replace"
      /\ Navigate(D, Parts) # Undef )
    =>
    /\ ReadAt(Result, Parts) = fix.suggestion.value
    /\ Result = Update(D, Resolve(D, Parts).loc, fix.suggestion.value)

====
